---- MODULE Spec2Model ----
(***************************************************************************)
(* Model of the Binance zh-TC announcement monitor (src/main.py,            *)
(* src/config.py): the seen-store file, the process life cycle of main(),   *)
(* run_daemon() and run_once(), the four extraction strategies of           *)
(* fetch_announcements(), the keyword test and process_announcements().     *)
(*                                                                         *)
(* Text is modelled as a sequence of characters, each character a one-     *)
(* code-point string; a CJK character is written by its code point         *)
(* ("U4E0A" is U+4E0A).                                                     *)
(***************************************************************************)
EXTENDS Integers, Sequences, FiniteSets, TLC

\* ------------------------------------------------------------------ bounds
MaxCycles == 2      \* cycles of run_once one process may run
MaxRuns == 2        \* process runs (restarts share the seen-store file)
MaxSeed == 1        \* hash seeds 0..MaxSeed a process may draw
MaxFrags == 2       \* fragments of a text handed to the classifier
MaxElems == 2       \* elements of a fetched document

\* ------------------------------------------------------- program constants
AnchorLimit == 20        \* announcement_links[:20]
DivLimit == 15           \* content_divs[:15]
MinTitleLen == 5         \* len(title) > 5 (strategies 1, 2), len(title) < 5
MinTextLen == 10         \* len(title) > 10 (strategy 3), len(text_clean) > 10
DefaultInterval == 30    \* CHECK_INTERVAL default

\* -------------------------------------------------------------------- text
UpperCase == <<"A","B","C","D","E","F","G","H","I","J","K","L","M",
               "N","O","P","Q","R","S","T","U","V","W","X","Y","Z">>
LowerCase == <<"a","b","c","d","e","f","g","h","i","j","k","l","m",
               "n","o","p","q","r","s","t","u","v","w","x","y","z">>

\* str.lower() on one character
LowerChar(c) ==
    IF \E i \in DOMAIN UpperCase : UpperCase[i] = c
    THEN LowerCase[CHOOSE i \in DOMAIN UpperCase : UpperCase[i] = c]
    ELSE c

\* a comparison that keeps the letter case: C12 as amended fails of it
lower_kept(s) == s

\* str.lower()
lower(s) == [i \in DOMAIN s |-> LowerChar(s[i])]

IsSpace(c) == c \in {" ", "\n", "\t"}

\* str.strip() / get_text(strip=True) of a single text node: the text from
\* its first to its last character that is not white space
strip(s) ==
    LET inked == {i \in DOMAIN s : ~IsSpace(s[i])}
    IN  IF inked = {} THEN <<>>
        ELSE SubSeq(s, CHOOSE i \in inked : \A j \in inked : i <= j,
                       CHOOSE i \in inked : \A j \in inked : i >= j)

\* k in s  (substring test)
IsSubstring(k, s) ==
    \E i \in 1..(Len(s) - Len(k) + 1) : SubSeq(s, i, i + Len(k) - 1) = k

\* self.keywords, in declared order
keywords == <<
    <<"U4E0A","U7DDA">>,
    <<"U65B0","U4E0A","U7DDA">>,
    <<"U5373","U5C07","U4E0A","U7DDA">>,
    <<"U958B","U59CB","U4EA4","U6613">>,
    <<"U65B0","U589E">>,
    <<"U652F","U6301">>,
    <<"U958B","U653E">>,
    <<"U63A8","U51FA">>,
    <<"U555F","U52D5">>,
    <<"l","i","s","t","i","n","g">>,
    <<"n","e","w"," ","t","r","a","d","i","n","g">>,
    <<"s","u","p","p","o","r","t">>,
    <<"l","a","u","n","c","h">> >>

\* contains_target_keywords(text) -> (bool, found_keywords)
contains_target_keywords(text) ==
    IF text = <<>> THEN <<FALSE, <<>>>>
    ELSE LET text_lower == lower(text)
             KwIn(k) == IsSubstring(lower(k), text_lower)
             found_keywords == SelectSeq(keywords, KwIn)
         IN  <<Len(found_keywords) > 0, found_keywords>>

\* ------------------------------------------------- the documents fetched
\* Raw text nodes a page may carry.
TxtLaunch == <<"L","a","u","n","c","h"," ","X">>
TxtListing == <<" ","N","e","w"," ","L","i","s","t","i","n","g"," ","A","B","C"," ">>
TxtWillList == <<"B","i","n","a","n","c","e"," ","W","i","l","l"," ",
                 "L","i","s","t"," ","X","Y","Z">>
RawTexts == <<TxtLaunch, TxtListing, TxtWillList>>

\* Element kinds: "a" an anchor whose href contains 'announcement', "h" a
\* heading h1..h5, "div" a div whose class holds a hint word, "p" any other
\* element.  Every element holds one text node.
Kinds == {"a", "h", "div", "p"}
Elements == [kind : Kinds, text : {RawTexts[i] : i \in DOMAIN RawTexts}]
\* A link is a sequence of text runs, the first run telling how it starts.
AnchorHref == <<"/", "zh-TC/support/announcement/x">>

Min(a, b) == IF a < b THEN a ELSE b

\* xs[:n]
Take(xs, n) == SubSeq(xs, 1, Min(n, Len(xs)))

\* the candidates one strategy appends for the elements it selected, in
\* document order: those whose stripped text is longer than minLen
Candidates(elems, minLen, source, withLink) ==
    LET found == [i \in DOMAIN elems |->
                    [title |-> strip(elems[i].text),
                     link |-> IF withLink /\ elems[i].kind = "a" THEN AnchorHref ELSE <<>>,
                     source |-> source]]
        Kept(c) == c.title # <<>> /\ Len(c.title) > minLen
    IN  SelectSeq(found, Kept)

OfKind(page, k) == LET P(e) == e.kind = k IN SelectSeq(page, P)

\* strategy 1: anchors whose href contains 'announcement'
Strategy1(page) ==
    Candidates(Take(OfKind(page, "a"), AnchorLimit), MinTitleLen, "announcement_link", TRUE)

\* strategy 2: heading elements
Strategy2(page) ==
    Candidates(OfKind(page, "h"), MinTitleLen, "title_element", FALSE)

\* strategy 3: divs with a hint class
Strategy3(page) ==
    Candidates(Take(OfKind(page, "div"), DivLimit), MinTextLen, "content_div", FALSE)

\* strategy 4: every text node that holds a keyword
Strategy4(page) ==
    LET HasKw(e) == contains_target_keywords(strip(e.text))[1]
    IN  Candidates(SelectSeq(page, HasKw), MinTextLen, "keyword_match", FALSE)

\* an extractor that stops at the first strategy that found something:
\* C10 as amended fails of it
ExtractFirstFound(page) ==
    IF Strategy1(page) # <<>> THEN Strategy1(page)
    ELSE IF Strategy2(page) # <<>> THEN Strategy2(page)
    ELSE IF Strategy3(page) # <<>> THEN Strategy3(page)
    ELSE Strategy4(page)

\* the body of fetch_announcements after a successful GET
Extract(page) ==
    LET found == Strategy1(page) \o Strategy2(page) \o Strategy3(page)
        keyword_matches == Strategy4(page)
    IN  found \o keyword_matches

RECURSIVE DocsOfLen(_)
DocsOfLen(n) ==
    IF n = 0 THEN {<<>>}
    ELSE {Append(d, e) : d \in DocsOfLen(n - 1), e \in Elements}

Docs == UNION {DocsOfLen(n) : n \in 0..MaxElems}

\* The pages the monitor is served in the life-cycle runs: an empty page, a
\* page whose only title holds no keyword, a page with one announcement
\* link, and two pages with two announcements in either order, one of them
\* with an announcement link that strategies 1 and 4 both find.
El(k, t) == [kind |-> k, text |-> t]
Pages == { <<>>,
           <<El("a", TxtWillList)>>,
           <<El("a", TxtLaunch)>>,
           <<El("h", TxtLaunch), El("div", TxtListing)>>,
           <<El("a", TxtListing), El("h", TxtLaunch)>> }

\* Extract, tabulated once over the pages
ExtractTable == {<<d, Extract(d)>> : d \in Pages}

\* the GET's outcome: a page, a timeout or network error, or a status that
\* raise_for_status() rejects
FetchOutcomes == {"ok", "timeout", "http_error"}

\* a fetch without the except clauses: C8 fails of it
fetch_unguarded(outcome, d) ==
    IF outcome = "ok"
    THEN [raised |-> FALSE, value |-> (CHOOSE p \in ExtractTable : p[1] = d)[2]]
    ELSE [raised |-> TRUE, value |-> <<>>]

\* fetch_announcements(): what it returns, and whether it raised; its two
\* except clauses turn every failure of the GET into the empty list
fetch_announcements(outcome, d) ==
    IF outcome = "ok"
    THEN [raised |-> FALSE, value |-> (CHOOSE p \in ExtractTable : p[1] = d)[2]]
    ELSE [raised |-> FALSE, value |-> <<>>]

\* ------------------------------------------------------- ids and the store
\* the titles of the model, numbered
StrippedTexts == {<<i, strip(RawTexts[i])>> : i \in DOMAIN RawTexts}

TextIndex(title) == (CHOOSE p \in StrippedTexts : p[2] = title)[1]

\* contains_target_keywords, tabulated once over the titles of the model
KeywordTable == {<<p[2], contains_target_keywords(p[2])>> : p \in StrippedTexts}

\* a monitor for which every title is relevant: C11 as amended fails of it
KeywordsOfUngated(title) ==
    <<TRUE, (CHOOSE p \in KeywordTable : p[1] = title)[2]>>

KeywordsOf(title) == (CHOOSE p \in KeywordTable : p[1] = title)[2]

\* hash(title): a function of the text and of the process's hash seed
\* (str hashes are salted per process unless PYTHONHASHSEED fixes the seed)
hash(sd, title) == sd * Len(RawTexts) + TextIndex(title)

\* f"zh_tc_{hash(title)}"
announcement_id(sd, title) == <<"zh_tc_", hash(sd, title)>>

Range(f) == {f[i] : i \in DOMAIN f}

\* The seen-store file: absent, holding something json.load rejects, or
\* holding a JSON array of ids.
Missing == [state |-> "missing", ids |-> <<>>]
Malformed == [state |-> "malformed", ids |-> <<>>]
ListFile(ids) == [state |-> "list", ids |-> ids]

IsList(f) == f.state = "list"

RECURSIVE SetToList(_)
\* list(self.seen_posts): each member once, in the set's iteration order
SetToList(S) ==
    IF S = {} THEN <<>>
    ELSE LET m == CHOOSE a \in S : \A b \in S : a[2] <= b[2]
         IN  <<m>> \o SetToList(S \ {m})

\* a save that opens the file for appending: C6 fails of it
WrittenAppended(old, seen) == ListFile(old.ids \o SetToList(seen))

\* what save_seen_posts leaves in the file: open(..., 'w') truncates, then
\* json.dump writes the whole list
WrittenFile(old, seen) == ListFile(SetToList(seen))

\* a load that lets the error of json.load escape: C5 fails of it
load_strict(f) ==
    IF f.state = "missing" THEN [raised |-> FALSE, value |-> {}]
    ELSE IF f.state = "malformed" THEN [raised |-> TRUE, value |-> {}]
    ELSE [raised |-> FALSE, value |-> Range(f.ids)]

\* load_seen_posts(): what it returns, and whether it raised; a missing file
\* and a failed json.load both give set()
load_seen_posts(f) ==
    IF f.state = "missing" THEN [raised |-> FALSE, value |-> {}]
    ELSE IF f.state = "malformed" THEN [raised |-> FALSE, value |-> {}]
    ELSE [raised |-> FALSE, value |-> Range(f.ids)]

\* a monitor that forgets to mark: C16 fails of it
MarkSeenSkipped(seen, id) == seen

\* self.seen_posts.add(announcement_id)
MarkSeen(seen, id) == seen \cup {id}

BaseUrl == <<"http", "s://www.binance.com">>

\* the link fix of process_announcements
FixLink(link) ==
    IF link # <<>> /\ link[1] # "http"
    THEN IF link[1] = "/" THEN BaseUrl \o link ELSE BaseUrl \o <<"/">> \o link
    ELSE link

RECURSIVE process_ignoring_seen(_, _, _)
\* process_announcements without the membership test on self.seen_posts:
\* C2 fails of it
process_ignoring_seen(anns, seen, sd) ==
    IF anns = <<>> THEN [new_alerts |-> <<>>, seen_posts |-> seen]
    ELSE LET announcement == Head(anns)
             title == strip(announcement.title)
             kw == IF title = <<>> THEN <<FALSE, <<>>>>
                   ELSE KeywordsOf(title)
             id == announcement_id(sd, title)
             isNew == ~(title = <<>> \/ Len(title) < MinTitleLen) /\ kw[1]
             rest == process_ignoring_seen(Tail(anns),
                        IF isNew THEN MarkSeen(seen, id) ELSE seen, sd)
         IN  IF isNew
             THEN [new_alerts |->
                      <<[id |-> id, title |-> title,
                         link |-> FixLink(announcement.link),
                         keywords |-> kw[2],
                         source |-> announcement.source]>> \o rest.new_alerts,
                   seen_posts |-> rest.seen_posts]
             ELSE rest

RECURSIVE process_announcements(_, _, _)
\* process_announcements(announcements) with self.seen_posts = seen in a
\* process whose hash seed is sd: [new_alerts, seen_posts]
process_announcements(anns, seen, sd) ==
    IF anns = <<>> THEN [new_alerts |-> <<>>, seen_posts |-> seen]
    ELSE LET announcement == Head(anns)
             title == strip(announcement.title)
             kw == IF title = <<>> THEN <<FALSE, <<>>>>
                   ELSE KeywordsOf(title)
             id == announcement_id(sd, title)
             isNew == /\ ~(title = <<>> \/ Len(title) < MinTitleLen)
                      /\ kw[1]
                      /\ id \notin seen
             rest == process_announcements(Tail(anns),
                        IF isNew THEN MarkSeen(seen, id) ELSE seen, sd)
         IN  IF isNew
             THEN [new_alerts |->
                      <<[id |-> id, title |-> title,
                         link |-> FixLink(announcement.link),
                         keywords |-> kw[2],
                         source |-> announcement.source]>> \o rest.new_alerts,
                   seen_posts |-> rest.seen_posts]
             ELSE rest

\* send_telegram_message(): True only on HTTP 200
SendOutcomes == {"200", "non200", "exception"}
send_telegram_message(outcome) == outcome = "200"

\* ------------------------------------------------------------------- state
VARIABLES
    file,            \* seen_announcements.json
    run,             \* number of processes started so far
    pc,              \* where the current process stands
    mode,            \* "daemon" (run_daemon) or "once" (--test)
    seed,            \* the process's hash seed
    check_interval,  \* Config.CHECK_INTERVAL
    seen_posts,      \* self.seen_posts
    announcements,   \* the list fetch_announcements returned last
    new_alerts,      \* run_once's new_alerts
    idx,             \* position of the for loop over new_alerts
    cycle,           \* number of the current call of run_once
    trace,           \* alert sends, delays and saves of the current cycle, in order
    lifecycle,       \* start/stop/error messages handed to send_telegram_message
                     \* and calls of run_once, in order
    failed,          \* ids of the alerts whose send failed in this process
    fetch_ok,        \* whether the last fetch got a page
    same_as_prev,    \* the last fetch returned the list of the cycle before
    loaded,          \* what load_seen_posts found: "none", "missing", "malformed", "list"
    alerted,         \* titles returned as new alerts by this process, in order
    persisted,       \* <<title, delivered>> for the titles whose seen-mark a successful
                     \* save put in the file; delivered: the alert's send succeeded
    inherited,       \* persisted, as it stood when this process loaded the file
    int_at,          \* pc at which the first KeyboardInterrupt hit this process
    doc,             \* the document handed to the extractor (extraction runs only)
    input_text,      \* the text handed to contains_target_keywords (classifier runs only)
    verdict,         \* what contains_target_keywords returned for it
    save_failed,     \* a call of save_seen_posts failed in this process
    attempted        \* ids of the alerts this process has handed to the notifier

vars == <<file, run, pc, mode, seed, check_interval, seen_posts, announcements,
          new_alerts, idx, cycle, trace, lifecycle, failed, fetch_ok, same_as_prev,
          loaded, alerted, persisted, inherited, int_at, doc, input_text, verdict,
          save_failed, attempted>>

Intervals == {DefaultInterval, -1}

Event(ev, kind, id, ok, ids) ==
    [ev |-> ev, kind |-> kind, id |-> id, ok |-> ok, ids |-> ids]

NoProcess ==
    /\ mode = "daemon"
    /\ seed = 0
    /\ check_interval = DefaultInterval
    /\ seen_posts = {}
    /\ announcements = <<>>
    /\ new_alerts = <<>>
    /\ idx = 1
    /\ cycle = 0
    /\ trace = <<>>
    /\ lifecycle = <<>>
    /\ failed = {}
    /\ fetch_ok = FALSE
    /\ same_as_prev = FALSE
    /\ loaded = "none"
    /\ alerted = <<>>
    /\ inherited = {}
    /\ int_at = "none"
    /\ save_failed = FALSE
    /\ attempted = {}

Init ==
    /\ file \in {Missing, Malformed, ListFile(<<>>)}
    /\ pc = "off"
    /\ run = 0
    /\ persisted = {}
    /\ doc = <<>>
    /\ input_text = <<>>
    /\ verdict = <<FALSE, <<>>>>
    /\ NoProcess

\* where control goes when run_once returns
AfterRunOnce(m) == IF m = "daemon" THEN "sleep" ELSE "exited"

\* where an Exception that escapes run_once goes: run_daemon's except
\* Exception, or main()'s when run_once was called from main()
Raised(m) == IF m = "daemon" THEN "error_msg" ELSE "exited"

\* main() when Config.validate() raises in __init__: the error is logged
\* and the process ends, the seen-store never read
StartInvalid ==
    /\ pc = "off"
    /\ run < MaxRuns
    /\ run' = run + 1
    /\ pc' = "exited"
    /\ UNCHANGED <<file, mode, seed, check_interval, seen_posts, announcements,
                   new_alerts, idx, cycle, trace, lifecycle, failed, fetch_ok,
                   same_as_prev, loaded, alerted, persisted, inherited, int_at,
                   doc, input_text, verdict,
                   save_failed, attempted>>

\* main() with a valid configuration: BinanceZhTcMonitor(), which loads the
\* seen-store, then run_daemon() or run_once()
Start ==
    /\ pc = "off"
    /\ run < MaxRuns
    /\ \E sd \in 0..MaxSeed, m \in {"daemon", "once"}, ci \in Intervals :
         LET ld == load_seen_posts(file)
         IN  /\ run' = run + 1
             /\ seed' = sd
             /\ mode' = m
             /\ check_interval' = ci
             /\ seen_posts' = IF ld.raised THEN {} ELSE ld.value
             /\ loaded' = file.state
             /\ inherited' = IF ~ld.raised /\ IsList(file) THEN persisted ELSE {}
             /\ pc' = IF ld.raised THEN "exited"
                      ELSE IF m = "daemon" THEN "start_msg" ELSE "fetch"
             /\ cycle' = IF ~ld.raised /\ m = "once" THEN 1 ELSE 0
             /\ lifecycle' = IF ~ld.raised /\ m = "once" THEN <<"run_once">> ELSE <<>>
    /\ UNCHANGED <<file, announcements, new_alerts, idx, trace, failed, fetch_ok,
                   same_as_prev, alerted, persisted, int_at, doc, input_text, verdict,
                   save_failed, attempted>>

\* the process is gone and its memory with it: only the file stays
Exit ==
    /\ pc = "exited"
    /\ pc' = "off"
    /\ mode' = "daemon"
    /\ seed' = 0
    /\ check_interval' = DefaultInterval
    /\ seen_posts' = {}
    /\ announcements' = <<>>
    /\ new_alerts' = <<>>
    /\ idx' = 1
    /\ cycle' = 0
    /\ trace' = <<>>
    /\ lifecycle' = <<>>
    /\ failed' = {}
    /\ fetch_ok' = FALSE
    /\ same_as_prev' = FALSE
    /\ loaded' = "none"
    /\ alerted' = <<>>
    /\ inherited' = {}
    /\ int_at' = "none"
    /\ save_failed' = FALSE
    /\ attempted' = {}
    /\ UNCHANGED <<file, run, persisted, doc, input_text, verdict>>

\* run_daemon: the start message, sent before the try block (its result is
\* dropped); then the first call of run_once
StartMsg ==
    /\ pc = "start_msg"
    /\ lifecycle' = lifecycle \o <<"start", "run_once">>
    /\ pc' = "fetch"
    /\ cycle' = 1
    /\ UNCHANGED <<file, run, mode, seed, check_interval, seen_posts, announcements,
                   new_alerts, idx, trace, failed, fetch_ok, same_as_prev, loaded, alerted,
                   persisted, inherited, int_at, doc, input_text, verdict,
                   save_failed, attempted>>

\* run_once: fetch_announcements(), and the return when it gave nothing
Fetch ==
    /\ pc = "fetch"
    /\ \E o \in FetchOutcomes :
       \E d \in (IF o = "ok" THEN Pages ELSE {<<>>}) :
         LET r == fetch_announcements(o, d)
             anns == r.value
         IN  /\ announcements' = anns
             /\ fetch_ok' = (o = "ok")
             /\ same_as_prev' = (cycle > 1 /\ ~r.raised /\ anns = announcements)
             /\ pc' = IF r.raised THEN Raised(mode)
                      ELSE IF anns = <<>> THEN AfterRunOnce(mode)
                      ELSE "process"
    /\ new_alerts' = <<>>
    /\ idx' = 1
    /\ UNCHANGED <<file, run, mode, seed, check_interval, seen_posts, cycle, trace,
                   lifecycle, failed, loaded, alerted, persisted, inherited,
                   int_at, doc, input_text, verdict, save_failed, attempted>>

\* a run_once that saves before it notifies: C19 fails of it
AfterProcessSaveFirst(alerts, m) == IF alerts # <<>> THEN "save" ELSE AfterRunOnce(m)

\* a run_once that saves after every cycle: C15 fails of it
AfterProcessAlwaysSave(alerts, m) == IF alerts # <<>> THEN "notify" ELSE "save"

\* run_once: if new_alerts: ... else: log and return
AfterProcess(alerts, m) == IF alerts # <<>> THEN "notify" ELSE AfterRunOnce(m)

\* run_once: process_announcements(), and the branch on new_alerts
Process ==
    /\ pc = "process"
    /\ LET r == process_announcements(announcements, seen_posts, seed)
       IN  /\ new_alerts' = r.new_alerts
           /\ seen_posts' = r.seen_posts
           /\ alerted' = alerted \o [i \in DOMAIN r.new_alerts |-> r.new_alerts[i].title]
           /\ pc' = AfterProcess(r.new_alerts, mode)
    /\ idx' = 1
    /\ UNCHANGED <<file, run, mode, seed, check_interval, announcements, cycle, trace,
                   lifecycle, failed, fetch_ok, same_as_prev, loaded, persisted,
                   inherited, int_at, doc, input_text, verdict,
                   save_failed, attempted>>

\* a loop that a failed send breaks out of: C7 fails of it
AfterSendBreak(i, n, ok) ==
    IF ok THEN [pc |-> "delay", idx |-> i]
    ELSE [pc |-> "save", idx |-> n + 1]

\* where the for loop over new_alerts goes after the send of alert i of n
AfterSend(i, n, ok) ==
    IF ok THEN [pc |-> "delay", idx |-> i]
    ELSE IF i < n THEN [pc |-> "notify", idx |-> i + 1]
    ELSE [pc |-> "save", idx |-> i + 1]

\* a loop that takes the alerts from the end of the list: C17 fails of it
NextAlertFromEnd(alerts, i) == alerts[Len(alerts) + 1 - i]

\* for alert in new_alerts: the alert of the i-th turn of the loop
NextAlert(alerts, i) == alerts[i]

\* run_once: format and send the alert the loop stands at
Notify ==
    /\ pc = "notify"
    /\ idx <= Len(new_alerts)
    /\ \E o \in SendOutcomes :
         LET ok == send_telegram_message(o)
             nx == AfterSend(idx, Len(new_alerts), ok)
             alert == NextAlert(new_alerts, idx)
         IN  /\ trace' = Append(trace, Event("send", "alert", alert.id, ok, {}))
             /\ failed' = IF ok THEN failed ELSE failed \cup {alert.id}
             /\ attempted' = attempted \cup {alert.id}
             /\ pc' = nx.pc
             /\ idx' = nx.idx
    /\ UNCHANGED <<file, run, mode, seed, check_interval, seen_posts, announcements,
                   new_alerts, cycle, lifecycle, fetch_ok, same_as_prev, loaded,
                   alerted, persisted, inherited, int_at, doc, input_text, verdict,
                   save_failed>>

\* run_once: time.sleep(2) after a send that succeeded
Delay ==
    /\ pc = "delay"
    /\ trace' = Append(trace, Event("delay", "", <<>>, TRUE, {}))
    /\ idx' = idx + 1
    /\ pc' = IF idx < Len(new_alerts) THEN "notify" ELSE "save"
    /\ UNCHANGED <<file, run, mode, seed, check_interval, seen_posts, announcements,
                   new_alerts, cycle, lifecycle, failed, fetch_ok, same_as_prev,
                   loaded, alerted, persisted, inherited, int_at, doc, input_text, verdict,
                   save_failed, attempted>>

SaveOutcomes == {"ok", "open_failed", "write_failed"}

\* the file after save_seen_posts: an error at open() leaves it as it was, an
\* error after the truncation leaves a partial document
FileAfterSave(o, old, seen) ==
    IF o = "ok" THEN WrittenFile(old, seen)
    ELSE IF o = "open_failed" THEN old
    ELSE Malformed

\* a save that reports success and writes nothing: C18 fails of it
save_nothing(o, old, seen) == [raised |-> FALSE, file |-> old]

\* a save without the except clause: C13 fails of it
save_unguarded(o, old, seen) ==
    [raised |-> o # "ok", file |-> FileAfterSave(o, old, seen)]

\* save_seen_posts(): the file it leaves, and whether it raised; its except
\* clause swallows every error of open() and json.dump
save_seen_posts(o, old, seen) ==
    [raised |-> FALSE, file |-> FileAfterSave(o, old, seen)]

\* run_once: save_seen_posts(), which swallows its errors
Save ==
    /\ pc = "save"
    /\ \E o \in SaveOutcomes :
         LET r == save_seen_posts(o, file, seen_posts)
         IN
         /\ file' = r.file
         /\ pc' = IF r.raised THEN Raised(mode) ELSE AfterRunOnce(mode)
         /\ save_failed' = (save_failed \/ o # "ok")
         /\ trace' = Append(trace, Event("save", o, <<>>, o = "ok", seen_posts))
         /\ persisted' = IF o = "ok"
                         THEN persisted \cup
                              {<<alerted[i],
                                 announcement_id(seed, alerted[i]) \notin failed>> :
                                   i \in DOMAIN alerted}
                         ELSE IF o = "write_failed" THEN {}
                         ELSE persisted
    /\ UNCHANGED <<run, mode, seed, check_interval, seen_posts, announcements,
                   new_alerts, idx, cycle, lifecycle, failed, fetch_ok, same_as_prev,
                   loaded, alerted, inherited, int_at, doc, input_text, verdict,
                   attempted>>

\* run_daemon: time.sleep(self.check_interval), then the next run_once; a
\* negative interval raises ValueError, which the loop's except Exception
\* catches
Sleep ==
    /\ pc = "sleep"
    /\ IF check_interval < 0
       THEN /\ pc' = "error_msg"
            /\ UNCHANGED <<cycle, trace, lifecycle, new_alerts, idx>>
       ELSE /\ cycle < MaxCycles
            /\ pc' = "fetch"
            /\ cycle' = cycle + 1
            /\ trace' = <<>>
            /\ new_alerts' = <<>>
            /\ idx' = 1
            /\ lifecycle' = Append(lifecycle, "run_once")
    /\ UNCHANGED <<file, run, mode, seed, check_interval, seen_posts, announcements,
                   failed, fetch_ok, same_as_prev, loaded, alerted,
                   persisted, inherited, int_at, doc, input_text, verdict,
                   save_failed, attempted>>

\* run_daemon: except KeyboardInterrupt -> the stop message (its result is
\* dropped), then return
StopMsg ==
    /\ pc = "stop_msg"
    /\ lifecycle' = Append(lifecycle, "stop")
    /\ pc' = "exited"
    /\ UNCHANGED <<file, run, mode, seed, check_interval, seen_posts, announcements,
                   new_alerts, idx, cycle, trace, failed, fetch_ok, same_as_prev, loaded,
                   alerted, persisted, inherited, int_at, doc, input_text, verdict,
                   save_failed, attempted>>

\* run_daemon: except Exception -> the error message (its result is
\* dropped), then return
ErrorMsg ==
    /\ pc = "error_msg"
    /\ lifecycle' = Append(lifecycle, "error")
    /\ pc' = "exited"
    /\ UNCHANGED <<file, run, mode, seed, check_interval, seen_posts, announcements,
                   new_alerts, idx, cycle, trace, failed, fetch_ok, same_as_prev, loaded,
                   alerted, persisted, inherited, int_at, doc, input_text, verdict,
                   save_failed, attempted>>

InCycle == {"fetch", "process", "notify", "delay", "save"}
Running == InCycle \cup {"start_msg", "sleep", "stop_msg", "error_msg"}

\* where a KeyboardInterrupt raised at position p takes the process: inside
\* run_daemon's try block to its handler, anywhere else to main()'s handler
InterruptTarget(m, p) ==
    IF m = "daemon" /\ p \in InCycle \cup {"sleep"} THEN "stop_msg" ELSE "exited"

\* SIGINT: Python raises KeyboardInterrupt in the main thread wherever it
\* stands, and no except Exception clause catches it.  One that hits
\* save_seen_posts hits before open() or leaves a partial document.
Interrupt ==
    /\ pc \in Running
    /\ pc' = InterruptTarget(mode, pc)
    /\ int_at' = IF int_at = "none" THEN pc ELSE int_at
    /\ IF pc = "save"
       THEN \E partial \in BOOLEAN :
              /\ file' = IF partial THEN Malformed ELSE file
              /\ persisted' = IF partial THEN {} ELSE persisted
       ELSE UNCHANGED <<file, persisted>>
    /\ UNCHANGED <<run, mode, seed, check_interval, seen_posts, announcements,
                   new_alerts, idx, cycle, trace, lifecycle, failed, fetch_ok,
                   same_as_prev, loaded, alerted, inherited, doc, input_text, verdict,
                   save_failed, attempted>>

Next ==
    \/ StartInvalid
    \/ Start
    \/ Exit
    \/ StartMsg
    \/ Fetch
    \/ Process
    \/ Notify
    \/ Delay
    \/ Save
    \/ Sleep
    \/ StopMsg
    \/ ErrorMsg
    \/ Interrupt

Spec == Init /\ [][Next]_vars

\* ------------------------------------------------- the extractor on its own
\* The four strategies applied to every document of up to MaxElems elements.
InitExtract ==
    /\ doc \in Docs
    /\ input_text = <<>>
    /\ verdict = <<FALSE, <<>>>>
    /\ pc = "extract"
    /\ file = Missing
    /\ run = 0
    /\ persisted = {}
    /\ NoProcess

ExtractStep ==
    /\ pc = "extract"
    /\ announcements' = Extract(doc)
    /\ pc' = "extracted"
    /\ UNCHANGED <<file, run, mode, seed, check_interval, seen_posts, new_alerts,
                   idx, cycle, trace, lifecycle, failed, fetch_ok, same_as_prev,
                   loaded, alerted, persisted, inherited, int_at, doc, input_text, verdict,
                   save_failed, attempted>>

NextExtract == ExtractStep

SpecExtract == InitExtract /\ [][NextExtract]_vars
\* ------------------------------------------------- the seen-store on its own
\* save_seen_posts() then load_seen_posts(), for every set of ids of the
\* model and every prior content of the file.
Ids == {announcement_id(sd, strip(RawTexts[i])) :
            sd \in 0..MaxSeed, i \in DOMAIN RawTexts}

PriorFiles == {Missing, Malformed} \cup
              {ListFile(SetToList(P)) :
                   P \in SUBSET {announcement_id(0, strip(RawTexts[i])) :
                                    i \in DOMAIN RawTexts}}

InitStore ==
    /\ seen_posts \in SUBSET Ids
    /\ file \in PriorFiles
    /\ pc = "store_save"
    /\ run = 0
    /\ persisted = {}
    /\ doc = <<>>
    /\ input_text = <<>>
    /\ verdict = <<FALSE, <<>>>>
    /\ mode = "daemon"
    /\ seed = 0
    /\ check_interval = DefaultInterval
    /\ announcements = <<>>
    /\ new_alerts = <<>>
    /\ idx = 1
    /\ cycle = 0
    /\ trace = <<>>
    /\ lifecycle = <<>>
    /\ failed = {}
    /\ fetch_ok = FALSE
    /\ same_as_prev = FALSE
    /\ loaded = "none"
    /\ alerted = <<>>
    /\ inherited = {}
    /\ int_at = "none"
    /\ save_failed = FALSE
    /\ attempted = {}

\* save_seen_posts(); the event keeps the set that was handed to it
StoreSave ==
    /\ pc = "store_save"
    /\ \E o \in SaveOutcomes :
         /\ file' = save_seen_posts(o, file, seen_posts).file
         /\ save_failed' = (o # "ok")
         /\ trace' = <<Event("save", o, <<>>, o = "ok", seen_posts)>>
    /\ seen_posts' = {}
    /\ pc' = "store_load"
    /\ UNCHANGED <<run, mode, seed, check_interval, announcements, new_alerts, idx,
                   cycle, lifecycle, failed, fetch_ok, same_as_prev, loaded,
                   alerted, persisted, inherited, int_at, doc, input_text, verdict,
                   attempted>>

\* load_seen_posts() in a fresh monitor
StoreLoad ==
    /\ pc = "store_load"
    /\ seen_posts' = load_seen_posts(file).value
    /\ loaded' = file.state
    /\ pc' = "store_done"
    /\ UNCHANGED <<file, run, mode, seed, check_interval, announcements, new_alerts,
                   idx, cycle, trace, lifecycle, failed, fetch_ok, same_as_prev,
                   alerted, persisted, inherited, int_at, doc, input_text, verdict,
                   save_failed, attempted>>

NextStore ==
    \/ StoreSave
    \/ StoreLoad

SpecStore == InitStore /\ [][NextStore]_vars
\* ------------------------------------------------ the classifier on its own
\* contains_target_keywords() applied to every text of up to MaxFrags
\* fragments.
Fragments == {
    <<"n","e","w"," ","t","r","a","d","i","n","g">>,
    <<"N","e","w"," ","T","R","A","D","I","N","G">>,
    <<"f","u","t","u","r","e","s">>,
    <<"F","u","t","u","r","e","s">>,
    <<"L","I","S","T","I","N","G">>,
    <<"l","i","s","t">>,
    <<"h","e","l","l","o">>,
    <<" ">>,
    <<"U4E0A","U7DDA">> }

RECURSIVE TextsOfFrags(_)
TextsOfFrags(n) ==
    IF n = 0 THEN {<<>>}
    ELSE {t \o f : t \in TextsOfFrags(n - 1), f \in Fragments}

Texts == UNION {TextsOfFrags(n) : n \in 0..MaxFrags}

InitClassify ==
    /\ input_text \in Texts
    /\ verdict = <<FALSE, <<>>>>
    /\ pc = "classify"
    /\ file = Missing
    /\ run = 0
    /\ persisted = {}
    /\ doc = <<>>
    /\ NoProcess

Classify ==
    /\ pc = "classify"
    /\ verdict' = contains_target_keywords(input_text)
    /\ pc' = "classified"
    /\ UNCHANGED <<file, run, mode, seed, check_interval, seen_posts, announcements,
                   new_alerts, idx, cycle, trace, lifecycle, failed, fetch_ok,
                   same_as_prev, loaded, alerted, persisted, inherited, int_at,
                   doc, input_text, save_failed, attempted>>

NextClassify == Classify

SpecClassify == InitClassify /\ [][NextClassify]_vars

\* ------------------------------------------------------------------ claims
AlertSends == SelectSeq(trace, LAMBDA e : e.ev = "send")
SentIds == [i \in DOMAIN AlertSends |-> AlertSends[i].id]
AlertIds == [i \in DOMAIN new_alerts |-> new_alerts[i].id]
SaveEvents == SelectSeq(trace, LAMBDA e : e.ev = "save")

\* C1: a title is returned as a new alert at most once in the whole life of
\* the seen-store, restarts of the process included: no process alerts a
\* title whose mark the file it loaded already held, and no process alerts
\* a title twice.
C1_AtMostOnceAcrossRestarts ==
    /\ \A i \in DOMAIN alerted : \A p \in inherited : p[1] # alerted[i]
    /\ \A i, j \in DOMAIN alerted : i # j => alerted[i] # alerted[j]

\* C2: when a cycle fetches the same candidate list as the cycle before it
\* in the same process, it returns no new alert and sends no notification,
\* whatever the notify and save outcomes of the cycle before were.
C2_RepeatedListIsQuiet ==
    same_as_prev => new_alerts = <<>> /\ AlertSends = <<>>

\* C2 witness: the second cycle has processed a non-empty list equal to the
\* first cycle's, whose alerts had a failed send and no successful save.
C2_Witness ==
    /\ same_as_prev
    /\ cycle = 2
    /\ pc = "sleep"
    /\ announcements # <<>>
    /\ failed # {}
    /\ ~IsList(file)
    /\ new_alerts = <<>>

\* the ids of the alerts whose send failed in the current cycle
FailedNow == {AlertSends[i].id : i \in {k \in DOMAIN AlertSends : ~AlertSends[k].ok}}

\* Within one process: an alert whose send failed stays marked seen, is in
\* the store that a successful save of that cycle writes, and is not
\* returned as a new alert by a later cycle (a new alert whose send has
\* failed is one whose send failed in the current cycle).
FailedSendStaysSeenInProcess ==
    /\ failed \subseteq seen_posts
    /\ \A i \in DOMAIN SaveEvents :
          SaveEvents[i].ok => FailedNow \subseteq SaveEvents[i].ids
    /\ (pc \in {"sleep", "exited"} /\ SaveEvents # <<>> /\ SaveEvents[1].ok)
          => IsList(file) /\ FailedNow \subseteq Range(file.ids)
    /\ \A i \in DOMAIN new_alerts :
          new_alerts[i].id \in failed => new_alerts[i].id \in FailedNow

\* C3: an alert whose send failed stays marked seen, is in the store that
\* a successful save of that cycle writes, and its title is not returned
\* as a new alert by any later cycle, of this process or of a process that
\* loaded the store holding its mark.
C3_FailedSendNeverReoffered ==
    /\ FailedSendStaysSeenInProcess
    /\ \A i \in DOMAIN alerted : <<alerted[i], FALSE>> \notin inherited

\* C4: in run_daemon an interrupt takes effect only at the sleep between
\* cycles, never inside a cycle; and a daemon that an interrupt ended has
\* sent every alert of its last cycle, has sent the stop message last, and
\* has every id of its seen set in the file.
C4_CooperativeCancellation ==
    /\ mode = "daemon" => int_at \notin InCycle
    /\ (mode = "daemon" /\ pc = "exited" /\ int_at \in InCycle \cup {"sleep"})
          => /\ SentIds = AlertIds
             /\ lifecycle # <<>> /\ lifecycle[Len(lifecycle)] = "stop"
             /\ seen_posts \subseteq (IF IsList(file) THEN Range(file.ids) ELSE {})

\* C5 as stated: a missing file loads as the empty set and startup goes on;
\* a malformed file ends the process before the poll loop, and the file
\* stays as it was.
C5_MalformedStoreIsFatal ==
    /\ (loaded = "missing" /\ alerted = <<>>) => seen_posts = {}
    /\ loaded = "malformed" =>
          pc = "exited" /\ cycle = 0 /\ lifecycle = <<>> /\ file = Malformed

\* C5 amended: a missing file and a malformed file both load as the empty
\* set, startup goes on (a process that loaded one ends only after it has
\* entered run_daemon or run_once), and the first successful save replaces
\* the malformed file with the list of the seen set.
C5_MalformedStoreLoadsEmpty ==
    /\ (loaded \in {"missing", "malformed"} /\ alerted = <<>>) => seen_posts = {}
    /\ (loaded \in {"missing", "malformed"} /\ pc = "exited")
          => lifecycle # <<>> \/ int_at # "none"
    /\ (loaded = "malformed" /\ SaveEvents # <<>> /\ SaveEvents[1].ok)
          => file = ListFile(SetToList(seen_posts))

\* C5 witness: a process that found the file malformed has written its
\* seen set over it.
C5_Witness ==
    /\ loaded = "malformed"
    /\ IsList(file)
    /\ file.ids # <<>>
    /\ Range(file.ids) = seen_posts

\* C6: after a successful save of a set S, whatever the file held before,
\* the file is the list of the members of S, each once, and a load of it
\* returns exactly S.
C6_RoundTrip ==
    (pc \in {"store_load", "store_done"} /\ trace[1].ok)
        => /\ IsList(file)
           /\ Range(file.ids) = trace[1].ids
           /\ Len(file.ids) = Cardinality(trace[1].ids)
           /\ pc = "store_done" => seen_posts = trace[1].ids

\* C6 witness: a set of two or more ids has been saved and loaded back.
C6_Witness ==
    /\ pc = "store_done"
    /\ trace[1].ok
    /\ Cardinality(trace[1].ids) >= 2
    /\ seen_posts = trace[1].ids

\* C7: the loop over new_alerts makes one send per alert, in order, whether
\* or not earlier sends failed, and run_once then reaches save_seen_posts.
C7_EveryAlertSentOnce ==
    /\ pc = "notify" => SentIds = SubSeq(AlertIds, 1, idx - 1)
    /\ pc = "delay" => SentIds = SubSeq(AlertIds, 1, idx)
    /\ pc = "save" => SentIds = AlertIds
    /\ (new_alerts # <<>> /\ int_at = "none" /\ pc \in {"sleep", "exited", "error_msg"})
          => SentIds = AlertIds /\ SaveEvents # <<>>

\* C7 witness: the first of two alerts failed to send, the second was sent
\* all the same, and the cycle stands at save_seen_posts.
C7_Witness ==
    /\ pc = "save"
    /\ Len(new_alerts) = 2
    /\ Len(AlertSends) = 2
    /\ ~AlertSends[1].ok

\* C8: a call of fetch_announcements whose GET failed returns no candidate;
\* that step sends nothing, leaves the seen set and the file as they were,
\* and takes run_daemon to the interval sleep.
C8_FetchFailureSkipsCycle ==
    [][(pc = "fetch" /\ int_at' = int_at /\ ~fetch_ok')
          => /\ announcements' = <<>>
             /\ new_alerts' = <<>>
             /\ trace' = trace
             /\ lifecycle' = lifecycle
             /\ seen_posts' = seen_posts
             /\ file' = file
             /\ mode = "daemon" => pc' = "sleep"]_vars

\* C8 witness: the fetch of the second cycle failed in a daemon that has
\* ids in its seen set; it stands at the interval sleep with nothing sent.
C8_Witness ==
    /\ mode = "daemon"
    /\ cycle = 2
    /\ pc = "sleep"
    /\ ~fetch_ok
    /\ seen_posts # {}
    /\ announcements = <<>>
    /\ trace = <<>>

\* C9: run_daemon sends one start message, before the first cycle; a
\* daemon that ran a cycle and ended has sent a stop (or error) message
\* last; and nothing runs after that message.
C9_LifecycleMessages ==
    mode = "daemon" =>
        /\ Cardinality({i \in DOMAIN lifecycle : lifecycle[i] = "start"}) <= 1
        /\ "run_once" \in Range(lifecycle) => lifecycle[1] = "start"
        /\ (pc = "exited" /\ "run_once" \in Range(lifecycle))
              => lifecycle[Len(lifecycle)] \in {"stop", "error"}
        /\ (\E i \in DOMAIN lifecycle : lifecycle[i] \in {"stop", "error"})
              => pc = "exited"

\* C10 as stated: the first strategy that finds a candidate is the only one
\* whose candidates are returned; when strategy 1 finds none and strategy 2
\* finds some, the result is strategy 2's list.
C10_FirstStrategyShortCircuits ==
    (pc = "extracted" /\ Strategy1(doc) = <<>> /\ Strategy2(doc) # <<>>)
        => announcements = Strategy2(doc)

\* C10 amended: all four strategies run and their lists are concatenated in
\* the declared order; when strategy 1 finds none and strategy 2 finds
\* some, the result begins with strategy 2's list and goes on with the
\* lists of strategies 3 and 4.
C10_StrategiesConcatenated ==
    pc = "extracted" =>
        /\ Len(announcements) = Len(Strategy1(doc)) + Len(Strategy2(doc))
                                 + Len(Strategy3(doc)) + Len(Strategy4(doc))
        /\ SubSeq(announcements, 1, Len(Strategy1(doc))) = Strategy1(doc)
        /\ (Strategy1(doc) = <<>> /\ Strategy2(doc) # <<>>)
              => announcements = Strategy2(doc) \o Strategy3(doc) \o Strategy4(doc)

\* C10 witness: strategy 1 found nothing, strategy 2 found a candidate, and
\* the result holds more than strategy 2's list.
C10_Witness ==
    /\ pc = "extracted"
    /\ Strategy1(doc) = <<>>
    /\ Strategy2(doc) # <<>>
    /\ Len(announcements) > Len(Strategy2(doc))

\* run_once has returned from the first cycle of a process that found the
\* file absent and fetched the one candidate titled t
FirstRunDone(t) ==
    /\ loaded = "missing"
    /\ cycle = 1
    /\ fetch_ok
    /\ Len(announcements) = 1
    /\ announcements[1].title = t
    /\ pc \in {"sleep", "exited"}
    /\ int_at = "none"

\* the cycle made exactly one alert, sent it once, and a successful save
\* left its id in the file
OneAlertPersisted ==
    /\ Len(new_alerts) = 1
    /\ Len(AlertSends) = 1
    /\ AlertSends[1].id = new_alerts[1].id
    /\ new_alerts[1].id \in seen_posts
    /\ SaveEvents # <<>>
    /\ SaveEvents[1].ok => IsList(file) /\ new_alerts[1].id \in Range(file.ids)

\* C11 as stated: with the file absent the load gives the empty set, and a
\* first cycle whose fetch returns the one candidate "Binance Will List XYZ"
\* makes exactly one alert, sent once, whose id is in the file at the end.
C11_FirstRunWillList ==
    /\ (loaded = "missing" /\ alerted = <<>>) => seen_posts = {}
    /\ FirstRunDone(TxtWillList) => OneAlertPersisted

\* C11 amended: with the file absent the load gives the empty set; the one
\* candidate "Binance Will List XYZ" holds no keyword and the cycle makes
\* no alert, sends nothing and leaves the file absent; one candidate whose
\* title holds a keyword ("Launch X") makes exactly one alert, sent once,
\* whose id a successful save leaves in the file.
C11_FirstRunKeywordTitle ==
    /\ (loaded = "missing" /\ cycle <= 1 /\ alerted = <<>>) => seen_posts = {}
    /\ FirstRunDone(TxtWillList) =>
          new_alerts = <<>> /\ trace = <<>> /\ seen_posts = {} /\ file = Missing
    /\ FirstRunDone(TxtLaunch) => OneAlertPersisted

\* C11 witness: the first run on an absent file has alerted "Launch X" once
\* and saved its id.
C11_Witness ==
    /\ FirstRunDone(TxtLaunch)
    /\ OneAlertPersisted
    /\ IsList(file)

KwNewTrading == <<"n","e","w"," ","t","r","a","d","i","n","g">>
KwFutures == <<"f","u","t","u","r","e","s">>

\* keyword k occurs in t at position i, letter case set aside
OccursAt(k, t, i) ==
    /\ i + Len(k) - 1 <= Len(t)
    /\ \A j \in DOMAIN k : LowerChar(t[i + j - 1]) = LowerChar(k[j])

\* some keyword of the list occurs in t, letter case set aside
HoldsKeyword(t) ==
    \E n \in DOMAIN keywords : \E i \in DOMAIN t : OccursAt(keywords[n], t, i)

\* C12 as stated (the code returns no tier, so relevance is what is left):
\* a text is relevant iff a keyword occurs in it, letter case set aside; a
\* text holding "new trading" is relevant, and so is a text holding
\* "futures".
C12_KeywordTiers ==
    pc = "classified" =>
        /\ verdict[1] = HoldsKeyword(input_text)
        /\ (\E i \in DOMAIN input_text : OccursAt(KwNewTrading, input_text, i))
              => verdict[1]
        /\ (\E i \in DOMAIN input_text : OccursAt(KwFutures, input_text, i))
              => verdict[1]

\* C12 amended: a text is relevant iff a keyword of the one list occurs in
\* it, letter case set aside, and the keywords returned are those of the
\* list that occur, in list order; a text holding "new trading" is
\* relevant; "futures" is no keyword, so a text whose only such word it is
\* is not relevant.
C12_SingleKeywordList ==
    pc = "classified" =>
        /\ verdict[1] = HoldsKeyword(input_text)
        /\ verdict[2] = SelectSeq(keywords,
                LAMBDA k : \E i \in DOMAIN input_text : OccursAt(k, input_text, i))
        /\ (\E i \in DOMAIN input_text : OccursAt(KwNewTrading, input_text, i))
              => verdict[1] /\ KwNewTrading \in Range(verdict[2])
        /\ input_text \in {KwFutures, <<"F","u","t","u","r","e","s">>}
              => ~verdict[1]

\* C12 witness: a text that holds "new trading" in capitals only was found
\* relevant.
C12_Witness ==
    /\ pc = "classified"
    /\ input_text = <<"N","e","w"," ","T","R","A","D","I","N","G">>
    /\ verdict[1]
    /\ verdict[2] = <<KwNewTrading>>

\* C13: a call of save_seen_posts that fails leaves the seen set as it was
\* and returns normally, so that run_daemon goes on to the sleep and the
\* next cycle; and no call of process_announcements returns an alert whose
\* id was in the seen set already, whether a save has written that id or
\* not.
C13_SaveFailureNotFatal ==
    [][/\ (pc = "save" /\ int_at' = int_at /\ ~trace'[Len(trace')].ok)
            => /\ seen_posts' = seen_posts
               /\ lifecycle' = lifecycle
               /\ pc' = AfterRunOnce(mode)
       /\ (pc = "process" /\ int_at' = int_at)
            => \A i \in DOMAIN new_alerts' : new_alerts'[i].id \notin seen_posts
      ]_vars

\* C13 witness: the save of the first cycle failed; the second cycle has
\* fetched a title marked in the first and returned no alert.
C13_Witness ==
    /\ cycle = 2
    /\ pc = "sleep"
    /\ save_failed
    /\ failed = {}
    /\ ~IsList(file)
    /\ \E i \in DOMAIN announcements :
          announcement_id(seed, strip(announcements[i].title)) \in seen_posts
    /\ new_alerts = <<>>

\* C14: between two consecutive calls of the notifier the caller performs
\* the delay step: no send of a cycle follows another send directly, be the
\* earlier one failed or not, and the first alert of a daemon's first cycle,
\* which follows the start message, is preceded by the delay.
C14_DelayBetweenSends ==
    /\ \A i \in 1..(Len(trace) - 1) :
          trace[i].ev = "send" => trace[i + 1].ev # "send"
    /\ (mode = "daemon" /\ cycle = 1 /\ trace # <<>>) => trace[1].ev # "send"

\* the part of C14 that the code keeps: a send that succeeded is followed
\* by the delay before anything else happens in the cycle
DelayAfterSuccessfulSend ==
    \A i \in 1..(Len(trace) - 1) :
        (trace[i].ev = "send" /\ trace[i].ok) => trace[i + 1].ev = "delay"

\* C15: a cycle in which fetch_announcements returns nothing, or
\* process_announcements returns no new alert, ends there: run_once returns
\* with nothing sent, the seen set as it was and the file untouched.
C15_QuietCycleHasNoEffect ==
    [][((pc = "fetch" /\ int_at' = int_at /\ announcements' = <<>>)
          \/ (pc = "process" /\ int_at' = int_at /\ new_alerts' = <<>>))
         => /\ seen_posts' = seen_posts
            /\ file' = file
            /\ trace' = <<>>
            /\ attempted' = attempted
            /\ pc' = AfterRunOnce(mode)
      ]_vars

\* C15 witness: the second cycle fetched candidates, found none of them
\* new, and has returned; the file holds what the first cycle saved.
C15_Witness ==
    /\ cycle = 2
    /\ pc = "sleep"
    /\ int_at = "none"
    /\ announcements # <<>>
    /\ new_alerts = <<>>
    /\ trace = <<>>
    /\ seen_posts # {}
    /\ file = ListFile(SetToList(seen_posts))

\* the position of the first candidate of the fetched list titled t
FirstOccurrence(t) ==
    CHOOSE k \in DOMAIN announcements :
        /\ strip(announcements[k].title) = t
        /\ \A j \in 1..(k - 1) : strip(announcements[j].title) # t

\* C16: no two alerts of a cycle share an id or a title, and each alert
\* carries the link (fixed) and the source of the first candidate of the
\* fetched list that bears its title.
C16_FirstOccurrenceWins ==
    /\ \A i, j \in DOMAIN new_alerts :
          i # j => /\ new_alerts[i].id # new_alerts[j].id
                   /\ new_alerts[i].title # new_alerts[j].title
    /\ \A i \in DOMAIN new_alerts :
          LET first == announcements[FirstOccurrence(new_alerts[i].title)]
          IN  /\ new_alerts[i].source = first.source
              /\ new_alerts[i].link = FixLink(first.link)

\* C16 witness: the fetched list holds one title twice, from the anchor
\* strategy and from the keyword scan, with another title between them; the
\* one alert of that title is the anchor's.
C16_Witness ==
    /\ Len(announcements) = 3
    /\ strip(announcements[1].title) = strip(announcements[3].title)
    /\ strip(announcements[1].title) # strip(announcements[2].title)
    /\ announcements[1].source # announcements[3].source
    /\ Len(new_alerts) = 2
    /\ new_alerts[1].title = strip(announcements[3].title)
    /\ new_alerts[1].source = "announcement_link"
    /\ new_alerts[1].link = BaseUrl \o AnchorHref

\* C17: the alerts of a cycle stand in the order in which their titles first
\* occur in the fetched list; the sends made so far are those of a leading
\* part of the alerts, in that order, one each; and the save comes last,
\* after the send of every alert.
C17_DispatchOrder ==
    /\ \A i, j \in DOMAIN new_alerts :
          i < j => FirstOccurrence(new_alerts[i].title)
                     < FirstOccurrence(new_alerts[j].title)
    /\ Len(SentIds) <= Len(AlertIds)
    /\ SentIds = SubSeq(AlertIds, 1, Len(SentIds))
    /\ \A k \in DOMAIN trace :
          trace[k].ev = "save" => k = Len(trace) /\ SentIds = AlertIds

\* C17 witness: a cycle found two alerts, sent the first found first, and
\* saved after both.
C17_Witness ==
    /\ Len(new_alerts) = 2
    /\ Len(AlertSends) = 2
    /\ AlertSends[1].id = new_alerts[1].id
    /\ AlertSends[2].id = new_alerts[2].id
    /\ trace[Len(trace)].ev = "save"
    /\ FirstOccurrence(new_alerts[1].title) < FirstOccurrence(new_alerts[2].title)

\* run_once has returned normally and the process stands between cycles
\* (or, in test mode, at its end)
Idle ==
    \/ pc = "sleep"
    \/ pc = "exited" /\ mode = "once" /\ loaded # "none" /\ int_at = "none"

\* the ids the file holds
FileIds == IF IsList(file) THEN Range(file.ids) ELSE {}

\* C18: in a process whose load found the file absent or holding a list,
\* and in which no save has failed, whenever run_once has returned the ids
\* in the file are the ids of the seen set.
C18_MemoryDiskAgreement ==
    (Idle /\ loaded \in {"missing", "list"} /\ ~save_failed)
        => seen_posts = FileIds

\* C18 witness: a process that loaded a list of ids has marked and saved
\* more and stands between cycles.
C18_Witness ==
    /\ pc = "sleep"
    /\ loaded = "list"
    /\ inherited # {}
    /\ ~save_failed
    /\ alerted # <<>>
    /\ Cardinality(seen_posts) >= 2
    /\ seen_posts = FileIds

\* the ids this process has marked seen, in the order of their alerts
MarkedIds == {announcement_id(seed, alerted[i]) : i \in DOMAIN alerted}

\* C19: an id whose alert was handed to the notifier was in the seen set
\* before; a save is made only when every alert of the cycle has been
\* handed to the notifier; and every id this process has marked that is
\* in the file has been handed to the notifier, an interrupt in mid-cycle
\* or not.
C19_PersistAfterNotify ==
    /\ attempted \subseteq MarkedIds
    /\ MarkedIds \subseteq seen_posts
    /\ SaveEvents # <<>> => \A i \in DOMAIN new_alerts : new_alerts[i].id \in attempted
    /\ \A id \in MarkedIds : id \in FileIds => id \in attempted

\* C19 witness: an interrupt hit the send loop of the second cycle with an
\* alert marked and not yet sent; the file holds the ids the first cycle
\* sent and saved, and not that one.
C19_Witness ==
    /\ mode = "daemon"
    /\ int_at = "notify"
    /\ pc = "exited"
    /\ cycle = 2
    /\ FileIds # {}
    /\ FileIds \subseteq attempted
    /\ \E id \in MarkedIds : id \notin attempted /\ id \notin FileIds
====
